---- MODULE Spec2Model ----
(***************************************************************************)
(* Model of the template render pipeline of the backend:                   *)
(*   - the POST /templates/{id}/use and POST /templates/render endpoints    *)
(*     (app/api/v1/endpoints/templates.py),                                 *)
(*   - the background render execution TemplateService.render_template      *)
(*     (app/services/template_service.py), split at its await points,       *)
(*   - the filter graph compiler inside TemplateService._render_video,      *)
(*   - the token resolver resolve_token / resolve_obj of _render_video,     *)
(*   - the caption service (app/services/caption_service.py) with the      *)
(*     update, export and burn endpoints (app/api/v1/endpoints/captions.py):*)
(*     SRT, VTT and ASS generation, karaoke text and ASS colours,           *)
(*   - the requests that cost credits (templates.py, captions.py),          *)
(*   - the temporary files of the background operations,                    *)
(*   - RateLimitMiddleware.dispatch (app/core/middleware.py).               *)
(*                                                                         *)
(* A "task" is one POST /templates/render request together with the        *)
(* background execution it schedules.  The row of user_templates is the    *)
(* shared state; every db.commit() writes the attributes the code assigned *)
(* since the previous commit.                                              *)
(***************************************************************************)
EXTENDS Integers, Sequences, FiniteSets, TLC

\* ---------------------------------------------------------------- bounds
MaxJobs == 1
MaxTasks == 2
MaxCredits == 2
MaxLayers == 3
MaxZ == 1

JobIds == 1..MaxJobs
Tasks == 1..MaxTasks

\* Python's None, as stored in a nullable column.
None == "<None>"

\* customization fields of a job whose value is an http URL
\* (the keys _prepare_assets downloads)
AssetFields == {"img1", "img2"}

\* texts the encoder can leave on stderr
Diagnostics == {"d1", "d2"}

\* ------------------------------------------------------------ job record
\* A new UserTemplate row: status="draft", render_progress default 0,
\* nullable columns NULL.
NewUserTemplate ==
  [status |-> "draft", render_progress |-> 0, output_url |-> None,
   thumbnail_url |-> None, error_message |-> None]

\* URL returned by StorageService.upload_file_content: a function of the
\* folder (user) and the filename (job title), not of the execution.
VideoUrl(j) == "renders/video_" \o ToString(j)
ThumbUrl(j) == "renders/thumb_" \o ToString(j)

\* str(e) of the exceptions the phases raise
FFmpegError(stderr) == "FFmpeg error: " \o stderr
DownloadError == "HTTPStatusError"
UploadError == "ClientError"
ThumbnailError == "FileNotFoundError"
TemplateMissing == "Base template not found"

\* process.returncode != 0 raises
FFmpegRaises_Never(returncode) == FALSE
FFmpegRaises(returncode) == returncode # 0

\* raise_for_status() in the download loop: any failing field aborts
PrepareAssetsRaises(bad) == bad # {}

\* except Exception as e: status = "failed"; error_message = str(e)
OnException_KeepStatus(ut, msg) == [ut EXCEPT !.error_message = msg]
OnException(ut, msg) == [ut EXCEPT !.status = "failed", !.error_message = msg]

\* if not template: status = "failed"; error_message = "Base template not
\* found"; commit; return
OnTemplateMissing_Progress(ut) ==
  [ut EXCEPT !.render_progress = 10, !.status = "failed",
             !.error_message = TemplateMissing]
OnTemplateMissing_NoMessage(ut) == [ut EXCEPT !.status = "failed"]
OnTemplateMissing(ut) ==
  [ut EXCEPT !.status = "failed", !.error_message = TemplateMissing]

\* lines 113-118 of render_template
MarkCompleted(ut, video_url, thumbnail_url) ==
  [ut EXCEPT !.output_url = video_url, !.thumbnail_url = thumbnail_url,
             !.status = "completed", !.render_progress = 100]

VARIABLES
  user_templates,     \* the user_templates table: job id -> row
  credits_remaining,  \* users.credits_remaining of the one user
  pc,                 \* task -> position in endpoint / background execution
  tjob,               \* task -> job id of its request
  seen_credits,       \* task -> credits_remaining loaded by get_current_user
  fail,               \* task -> phase that raised in its execution
  stderr,             \* task -> encoder diagnostic captured, if any
  storage,            \* uploads performed: set of <<task, kind>>
  layers,             \* compiler input: template_data["layers"]
  asset_paths,        \* compiler input: keys of asset_paths
  graph,              \* compiler output
  cpc,                \* position of the compiler run
  dur,                \* compiler input: duration override and template default
  res,                \* a token resolver run: input, context, results
  kar,                \* a _karaoke_text run: words and result
  col,                \* a _hex_to_ass_color run: colour and result
  caption,            \* the one row of the captions table
  response,           \* result of the last caption request
  tmp,                \* temporary files of the service calls made so far
  rate                \* RateLimitMiddleware: clock, rate_limit_data, log

jobvars == <<user_templates, credits_remaining, pc, tjob, 
             seen_credits, fail, stderr, storage>>
compvars == <<layers, asset_paths, graph, cpc, dur>>
purevars == <<res, kar, col>>
capvars == <<caption, response>>
sysvars == <<tmp, rate>>
notjobvars == <<layers, asset_paths, graph, cpc, dur, res, kar, col,
                caption, response, tmp, rate>>
vars == <<user_templates, credits_remaining, pc, tjob,
          seen_credits, fail, stderr, storage, layers, asset_paths, graph, cpc,
          dur, res, kar, col, caption, response, tmp, rate>>

Exists(j) == j \in DOMAIN user_templates

\* phases of a background execution that has not finished
ExecPhases == {"load", "assets", "encode", "upload_video", "thumbnail",
               "publish"}
\* positions of an accepted request that has not yet scheduled its execution
HandlerPhases == {"commit_status", "schedule"}

InitJobs ==
  /\ user_templates = <<>>
  /\ credits_remaining \in 0..MaxCredits
  /\ pc = [t \in Tasks |-> "idle"]
  /\ tjob = [t \in Tasks |-> 0]
  /\ seen_credits = [t \in Tasks |-> 0]
  /\ fail = [t \in Tasks |-> "none"]
  /\ stderr = [t \in Tasks |-> None]
  /\ storage = {}

\* POST /templates/{template_id}/use: creates the row in "draft"
use_template(j) ==
  /\ ~Exists(j)
  /\ \A i \in JobIds : i < j => Exists(i)
  /\ user_templates' = user_templates @@ (j :> NewUserTemplate)
  /\ UNCHANGED <<credits_remaining, pc, tjob, seen_credits,
                 fail, stderr, storage>>

\* POST /templates/render, up to the first commit: select the row (404 when
\* absent), check the credits loaded by get_current_user (402 when <= 0).
\* Nothing in the handler reads user_template.status.  A rejected request
\* ends here and keeps no copy of the user.
render_select(t, j) ==
  /\ pc[t] = "idle"
  /\ tjob' = [tjob EXCEPT ![t] = j]
  /\ seen_credits' = [seen_credits EXCEPT ![t] =
        IF Exists(j) /\ credits_remaining > 0 THEN credits_remaining ELSE 0]
  /\ pc' = [pc EXCEPT ![t] =
              IF ~Exists(j) THEN "http404"
              ELSE IF credits_remaining <= 0 THEN "http402"
              ELSE "commit_status"]
  /\ UNCHANGED <<user_templates, credits_remaining, fail, stderr, storage>>

\* user_template.status = "rendering"; await db.commit()
render_commit_status(t) ==
  /\ pc[t] = "commit_status"
  /\ user_templates' = [user_templates EXCEPT ![tjob[t]].status = "rendering"]
  /\ pc' = [pc EXCEPT ![t] = "schedule"]
  /\ UNCHANGED <<credits_remaining, tjob, seen_credits, fail,
                 stderr, storage>>

\* background_tasks.add_task(...); credits_remaining -= 1; await db.commit();
\* the response is sent and the background execution starts.  The request's
\* copy of the user is not read again and is dropped.
render_schedule(t) ==
  /\ pc[t] = "schedule"
  /\ credits_remaining' = seen_credits[t] - 1
  /\ seen_credits' = [seen_credits EXCEPT ![t] = 0]
  /\ pc' = [pc EXCEPT ![t] = "load"]
  /\ UNCHANGED <<user_templates, tjob, fail,
                 stderr, storage>>

\* the except block followed by the final commit
Raise(t, phase, msg) ==
  /\ user_templates' = [user_templates EXCEPT
                          ![tjob[t]] = OnException(@, msg)]
  /\ fail' = [fail EXCEPT ![t] = phase]
  /\ pc' = [pc EXCEPT ![t] = "done"]

\* TemplateService.render_template: load the row and the base template; when
\* the template is missing mark the job failed, else render_progress = 10
\* and commit (the two selects write nothing)
exec_load(t) ==
  /\ pc[t] = "load"
  /\ \E found \in BOOLEAN :
       IF found
         THEN /\ user_templates' = [user_templates EXCEPT
                                      ![tjob[t]].render_progress = 10]
              /\ pc' = [pc EXCEPT ![t] = "assets"]
              /\ UNCHANGED fail
         ELSE /\ user_templates' = [user_templates EXCEPT
                   ![tjob[t]] = OnTemplateMissing(@)]
              /\ fail' = [fail EXCEPT ![t] = "template"]
              /\ pc' = [pc EXCEPT ![t] = "done"]
  /\ UNCHANGED <<credits_remaining, tjob, seen_credits, stderr,
                 storage>>

\* _prepare_assets: download every URL customization; render_progress = 40
exec_prepare_assets(t) ==
  /\ pc[t] = "assets"
  /\ \E bad \in SUBSET AssetFields :
       IF PrepareAssetsRaises(bad)
         THEN Raise(t, "asset", DownloadError)
         ELSE /\ user_templates' = [user_templates EXCEPT
                                      ![tjob[t]].render_progress = 40]
              /\ pc' = [pc EXCEPT ![t] = "encode"]
              /\ UNCHANGED fail
  /\ UNCHANGED <<credits_remaining, tjob, seen_credits, stderr,
                 storage>>

\* _render_video: run the encoder; render_progress = 80
exec_render_video(t) ==
  /\ pc[t] = "encode"
  /\ \E returncode \in {0, 1}, d \in Diagnostics :
       /\ stderr' = [stderr EXCEPT ![t] = IF returncode # 0 THEN d ELSE None]
       /\ IF FFmpegRaises(returncode)
            THEN Raise(t, "encode", FFmpegError(d))
            ELSE /\ user_templates' = [user_templates EXCEPT
                                         ![tjob[t]].render_progress = 80]
                 /\ pc' = [pc EXCEPT ![t] = "upload_video"]
                 /\ UNCHANGED fail
  /\ UNCHANGED <<credits_remaining, tjob, seen_credits, storage>>

\* upload the rendered video
exec_upload_video(t) ==
  /\ pc[t] = "upload_video"
  /\ \E ok \in BOOLEAN :
       IF ok
         THEN /\ storage' = storage \cup {<<t, "video">>}
              /\ pc' = [pc EXCEPT ![t] = "thumbnail"]
              /\ UNCHANGED <<user_templates, fail>>
         ELSE /\ Raise(t, "upload_video", UploadError)
              /\ UNCHANGED storage
  /\ UNCHANGED <<credits_remaining, tjob, seen_credits, stderr>>

\* _generate_thumbnail ignores the encoder's exit code, so open() raises when
\* no thumbnail was written; then the thumbnail is uploaded
exec_thumbnail(t) ==
  /\ pc[t] = "thumbnail"
  /\ \E outcome \in {"ok", "thumbnail", "upload_thumbnail"} :
       IF outcome = "ok"
         THEN /\ storage' = storage \cup {<<t, "poster">>}
              /\ pc' = [pc EXCEPT ![t] = "publish"]
              /\ UNCHANGED <<user_templates, fail>>
         ELSE /\ Raise(t, outcome,
                       IF outcome = "thumbnail" THEN ThumbnailError
                                                ELSE UploadError)
              /\ UNCHANGED storage
  /\ UNCHANGED <<credits_remaining, tjob, seen_credits, stderr>>

\* output_url, thumbnail_url, status, render_progress = 100; final commit
exec_publish(t) ==
  /\ pc[t] = "publish"
  /\ user_templates' = [user_templates EXCEPT ![tjob[t]] =
        MarkCompleted(@, VideoUrl(tjob[t]), ThumbUrl(tjob[t]))]
  /\ pc' = [pc EXCEPT ![t] = "done"]
  /\ UNCHANGED <<credits_remaining, tjob, seen_credits, fail,
                 stderr, storage>>

ExecStep(t) ==
  \/ exec_load(t)
  \/ exec_prepare_assets(t)
  \/ exec_render_video(t)
  \/ exec_upload_video(t)
  \/ exec_thumbnail(t)
  \/ exec_publish(t)

HandlerStep(t) == render_commit_status(t) \/ render_schedule(t)

\* ------------------------------------------------- filter graph compiler
\* (TemplateService._render_video, lines 240-416)

\* dict.get(k): None when the key is absent
Get(l, k) == IF k \in DOMAIN l THEN l[k] ELSE None

\* a str that is not empty
NonEmptyStr(v) == v # None /\ v # ""

\* keys a "$placeholder.<key>" token can name
PlaceholderKeys == {"img1", "img2"}
PlaceholderToken(k) == "$placeholder." \o k

\* value.startswith("$placeholder.")
IsPlaceholder(v) == \E k \in PlaceholderKeys : v = PlaceholderToken(k)
\* value.split("$placeholder.", 1)[1]
PlaceholderKey(v) == CHOOSE k \in PlaceholderKeys : v = PlaceholderToken(k)

\* the URL a customization holds for an asset field
UrlOf(k) == "http://cdn/" \o k
\* the file _prepare_assets wrote for a field
LocalPath(k) == "tmp/" \o k

\* resolve_token restricted to the tokens a layer source or text can be:
\* a placeholder resolves to the customization value (here: the URL of a
\* downloaded field) or None; anything else resolves to itself
resolve_token(v, assets) ==
  IF v # None /\ IsPlaceholder(v)
    THEN IF PlaceholderKey(v) \in assets THEN UrlOf(PlaceholderKey(v)) ELSE None
    ELSE v

\* ----------------------------------------------------------- token resolver
\* resolve_token / resolve_obj of _render_video on JSON values.  A value
\* carries its Python type: a str, an int, None, a dict or a list.
StrV(s) == [str |-> s]
IntV(n) == [int |-> n]
NoneV == [none |-> TRUE]
DictV(f) == [dict |-> f]
ListV(q) == [list |-> q]
IsStr(v) == "str" \in DOMAIN v
IsDict(v) == "dict" \in DOMAIN v
IsList(v) == "list" \in DOMAIN v

\* truth value of a Python object, as `or` tests it
Truthy(v) ==
  IF IsStr(v) THEN v.str # ""
  ELSE IF "int" \in DOMAIN v THEN v.int # 0
  ELSE IF IsDict(v) THEN DOMAIN v.dict # {}
  ELSE IF IsList(v) THEN v.list # <<>>
  ELSE FALSE

ThemeKeys == {"primary", "accent"}
ThemeToken(k) == "$theme.colors." \o k
IsThemeToken(s) == \E k \in ThemeKeys : s = ThemeToken(k)
ThemeKey(s) == CHOOSE k \in ThemeKeys : s = ThemeToken(k)

\* d.get(k, dflt) on a dict modelled as a function
GetOr(d, k, dflt) == IF k \in DOMAIN d THEN d[k] ELSE dflt

\* ctx: duration_seconds, colors (theme.get("colors") or {}), customizations,
\* placeholders (definition.get("placeholders") or {}); a placeholder is a
\* dict that may hold "default" and "required"
PlaceholderDefault(ctx, key) ==
  GetOr(GetOr(ctx.placeholders, key, << >>), "default", NoneV)

\* customizations.get(key) or <default>
OrElse(a, b) == IF Truthy(a) THEN a ELSE b

ResolvePlaceholder(ctx, key) ==
  OrElse(GetOr(ctx.customizations, key, NoneV), PlaceholderDefault(ctx, key))

ResolveToken(ctx, value) ==
  IF ~IsStr(value) THEN value
  ELSE IF value.str = "$duration" THEN IntV(ctx.duration_seconds)
  ELSE IF IsThemeToken(value.str)
       THEN GetOr(ctx.colors, ThemeKey(value.str), StrV("#000000"))
  ELSE IF IsPlaceholder(value.str)
       THEN ResolvePlaceholder(ctx, PlaceholderKey(value.str))
  ELSE value

RECURSIVE resolve_obj(_, _)
resolve_obj(ctx, obj) ==
  IF IsDict(obj)
    THEN DictV([k \in DOMAIN obj.dict |-> resolve_obj(ctx, obj.dict[k])])
  ELSE IF IsList(obj)
    THEN ListV([i \in DOMAIN obj.list |-> resolve_obj(ctx, obj.list[i])])
  ELSE ResolveToken(ctx, obj)

\* the values a customization or a placeholder default can hold
Literals == {StrV("Hello"), StrV(""), IntV(0), NoneV}
TokenStrs ==
  {StrV("$duration")} \cup {StrV(ThemeToken(k)) : k \in ThemeKeys}
    \cup {StrV(PlaceholderToken(k)) : k \in PlaceholderKeys}
Atoms == Literals \cup TokenStrs \cup {IntV(3)}

MaxDepth == 1

\* layer objects: an atom, or a dict / a list around an object, nested at most
\* MaxDepth deep
RECURSIVE Objects(_)
Objects(d) ==
  IF d = 0 THEN Atoms
  ELSE Objects(d - 1)
         \cup {DictV([k \in {"text"} |-> o]) : o \in Objects(d - 1)}
         \cup {ListV(<<o>>) : o \in Objects(d - 1)}

PartialFns(K, V) == UNION {[D -> V] : D \in SUBSET K}

\* a placeholder declaration: {"required": .., "default": ..} with the
\* default possibly left out
Declarations ==
  {[k \in {"required"} |-> r] : r \in BOOLEAN}
    \cup {[required |-> r, default |-> StrV("Dflt")] : r \in BOOLEAN}

Contexts ==
  [duration_seconds : {5},
   colors : PartialFns({"primary"}, {StrV("#112233")}),
   customizations : PartialFns(PlaceholderKeys, {StrV("Hello"), StrV(""), NoneV,
                                                  StrV("$duration")}),
   placeholders : PartialFns(PlaceholderKeys, Declarations)]

Unset == [unset |-> TRUE]
ResIdle == res = [rpc |-> "off"]

\* int(l.get("z") or 0)
ZKey(l) == IF "z" \in DOMAIN l THEN l.z ELSE 0

\* layers paired with their declaration position
Tagged(ls) == [i \in 1..Len(ls) |-> [pos |-> i, layer |-> ls[i]]]

\* first index of a sorted list whose key is greater than k (Len+1 if none)
RECURSIVE UpperBound(_, _, _)
UpperBound(sorted, k, i) ==
  IF i > Len(sorted) THEN i
  ELSE IF ZKey(sorted[i].layer) > k THEN i
  ELSE UpperBound(sorted, k, i + 1)

\* first index of a sorted list whose key is not smaller than k
RECURSIVE LowerBound(_, _, _)
LowerBound(sorted, k, i) ==
  IF i > Len(sorted) THEN i
  ELSE IF ZKey(sorted[i].layer) >= k THEN i
  ELSE LowerBound(sorted, k, i + 1)

InsertAt(seq, i, e) == SubSeq(seq, 1, i - 1) \o <<e>> \o SubSeq(seq, i, Len(seq))

\* an unstable sort: a layer goes before the layers of equal z
RECURSIVE SortLayers_Unstable(_, _, _)
SortLayers_Unstable(tagged, i, acc) ==
  IF i > Len(tagged) THEN acc
  ELSE SortLayers_Unstable(tagged, i + 1,
         InsertAt(acc, LowerBound(acc, ZKey(tagged[i].layer), 1), tagged[i]))

\* sorted(layers, key=z): Python's sort is stable, a layer goes after the
\* layers of smaller or equal z that were declared before it
RECURSIVE SortLayers(_, _, _)
SortLayers(tagged, i, acc) ==
  IF i > Len(tagged) THEN acc
  ELSE SortLayers(tagged, i + 1,
         InsertAt(acc, UpperBound(acc, ZKey(tagged[i].layer), 1), tagged[i]))

sorted_layers_unstable(ls) == SortLayers_Unstable(Tagged(ls), 1, <<>>)
sorted_layers(ls) == SortLayers(Tagged(ls), 1, <<>>)

\* lines 257-287: one encoder input per video/image layer whose source
\* resolves to a downloaded file; the input index is stored under the
\* layer's id.  st = [inputs, index_by_id]
RECURSIVE BuildInputs(_, _, _, _)
BuildInputs(ls, assets, i, st) ==
  IF i > Len(ls) THEN st
  ELSE
    LET layer == ls[i]
        raw_source == Get(layer, "source")
        source == resolve_token(raw_source, assets)
        placeholder_key ==
          IF raw_source # None /\ IsPlaceholder(raw_source)
            THEN PlaceholderKey(raw_source) ELSE ""
        has_path == placeholder_key \in assets
        n == Cardinality(DOMAIN st.index_by_id)
        key == IF NonEmptyStr(Get(layer, "id")) THEN layer.id
               ELSE "layer_" \o ToString(n + 1)
    IN IF Get(layer, "type") \notin {"video", "image"}
            \/ ~NonEmptyStr(source) \/ ~has_path
         THEN BuildInputs(ls, assets, i + 1, st)
         ELSE BuildInputs(ls, assets, i + 1,
                [inputs |-> Append(st.inputs,
                                   [pos |-> i, path |-> LocalPath(placeholder_key)]),
                 index_by_id |->
                   [k \in DOMAIN st.index_by_id \cup {key} |->
                      IF k = key THEN 1 + n ELSE st.index_by_id[k]]])

Label(prefix, n) == "[" \o prefix \o ToString(n) \o "]"
InputLabel(n) == "[" \o ToString(n) \o ":v]"

\* resolve_duration_seconds: the override when it is an int > 0, else the
\* template's duration.  d = [override, template]
resolve_duration_seconds_Template(d) == d.template
resolve_duration_seconds(d) ==
  IF "int" \in DOMAIN d.override /\ d.override.int > 0
    THEN d.override.int
    ELSE d.template

\* the resolver context of a compiler run; layer windows and transforms of
\* the universe name no theme colour and no placeholder
CompileCtx(duration_seconds) ==
  [duration_seconds |-> duration_seconds, colors |-> << >>,
   customizations |-> << >>, placeholders |-> << >>]

\* layer.get(k) as a typed value
GetV(l, k) == IF k \in DOMAIN l THEN l[k] ELSE NoneV

\* between_expr: s = float(resolve_token(start) or 0),
\* e = float(resolve_token(end) or duration_seconds); whole seconds
between_expr(ctx, start, end) ==
  [s |-> OrElse(ResolveToken(ctx, start), IntV(0)).int,
   e |-> OrElse(ResolveToken(ctx, end), IntV(ctx.duration_seconds)).int]

\* opacity = float(transform.get("opacity") or 1.0), in hundredths
Opacity(ctx, layer) ==
  LET transform == resolve_obj(ctx, OrElse(GetV(layer, "transform"),
                                           DictV(<< >>)))
  IN  OrElse(GetOr(transform.dict, "opacity", NoneV), IntV(100)).int

\* overlay_index += 1
NextOverlayIndex_Same(k) == k
NextOverlayIndex(k) == k + 1

\* lines 327-405: walk the sorted layers and chain overlay / drawtext
\* operations.  st = [lines, current_label, overlay_index, draw_index]
RECURSIVE Chain(_, _, _, _, _, _)
Chain(sorted, assets, index_by_id, ctx, i, st) ==
  IF i > Len(sorted) THEN st
  ELSE
    LET layer == sorted[i].layer
        pos == sorted[i].pos
        ltype == Get(layer, "type")
        layer_id == Get(layer, "id")
        enable == between_expr(ctx, GetV(layer, "start"), GetV(layer, "end"))
    IN IF ltype \in {"video", "image"}
         THEN IF layer_id \notin DOMAIN index_by_id
                THEN Chain(sorted, assets, index_by_id, ctx, i + 1, st)
                ELSE
                  LET k == st.overlay_index
                      opacity == Opacity(ctx, layer)
                      scale == [op |-> "scale", pos |-> pos,
                                ins |-> <<InputLabel(index_by_id[layer_id])>>,
                                out |-> Label("ov", k)]
                      alpha == [op |-> "alpha", pos |-> pos,
                                ins |-> <<Label("ov", k)>>,
                                out |-> Label("ova", k), aa |-> opacity]
                      ov_in == IF opacity < 100 THEN Label("ova", k)
                                                ELSE Label("ov", k)
                      overlay == [op |-> "overlay", pos |-> pos,
                                  ins |-> <<st.current_label, ov_in>>,
                                  out |-> Label("v", k), enable |-> enable]
                  IN Chain(sorted, assets, index_by_id, ctx, i + 1,
                       [st EXCEPT
                          !.lines = @ \o (IF opacity < 100
                                            THEN <<scale, alpha, overlay>>
                                            ELSE <<scale, overlay>>),
                          !.current_label = Label("v", k),
                          !.overlay_index = NextOverlayIndex(k)])
       ELSE IF ltype = "text"
         THEN IF ~NonEmptyStr(resolve_token(Get(layer, "text"), assets))
                THEN Chain(sorted, assets, index_by_id, ctx, i + 1, st)
                ELSE
                  LET d == st.draw_index + 1
                      draw == [op |-> "drawtext", pos |-> pos,
                               ins |-> <<st.current_label>>,
                               out |-> Label("t", d), enable |-> enable]
                  IN Chain(sorted, assets, index_by_id, ctx, i + 1,
                       [st EXCEPT !.lines = @ \o <<draw>>,
                                  !.current_label = Label("t", d),
                                  !.draw_index = d])
       ELSE Chain(sorted, assets, index_by_id, ctx, i + 1, st)

\* the encoder command of _render_video: the length d of the background
\* source, the inputs after the background, the filter lines, the label
\* mapped as output and the -t truncation
CompileGraph(ls, assets, d) ==
  LET duration_seconds == resolve_duration_seconds(d)
      built == BuildInputs(ls, assets, 1, [inputs |-> <<>>, index_by_id |-> <<>>])
      base == [op |-> "format", pos |-> 0, ins |-> <<"[0:v]">>, out |-> "[base]"]
      st == Chain(sorted_layers(ls), assets, built.index_by_id,
                  CompileCtx(duration_seconds), 1,
                  [lines |-> <<base>>, current_label |-> "[base]",
                   overlay_index |-> 0, draw_index |-> 0])
  IN [background_d |-> duration_seconds, inputs |-> built.inputs,
      filter_lines |-> st.lines, map |-> st.current_label,
      t |-> duration_seconds]

\* layer universe of the compiler runs
ImageLayers ==
  [type : {"image"}, id : {"a", "b"}, z : 0..MaxZ,
   source : {PlaceholderToken(k) : k \in PlaceholderKeys}]
TextLayers ==
  [type : {"text"}, id : {"t"}, z : 0..MaxZ, text : {"hi"}]
     \cup {[type |-> "text", id |-> "t", z |-> 0, text |-> ""],
           [type |-> "text", id |-> "u", text |-> "hi"]}
SolidLayers == {[type |-> "solid", id |-> "bg", z |-> 0]}
\* an image layer that declares no id, and one that is half transparent
NoIdLayers ==
  {[type |-> "image", z |-> 0, source |-> PlaceholderToken("img1")],
   [type |-> "image", id |-> "b", z |-> 0,
    source |-> PlaceholderToken("img2"),
    transform |-> DictV([j \in {"opacity"} |-> IntV(50)])]}
LayerUniverse ==
  ImageLayers \cup TextLayers \cup SolidLayers \cup NoIdLayers
LayerLists == UNION {[1..n -> LayerUniverse] : n \in 0..MaxLayers}

\* layers with a visibility window and an opacity: start and end are
\* absent, a number of seconds or the $duration token; opacity is absent or
\* a number of hundredths
MaxFxLayers == 2
Windows ==
  {<< >>,
   [start |-> IntV(1), end |-> IntV(3)],
   [k \in {"end"} |-> StrV("$duration")],
   [k \in {"start"} |-> IntV(2)],
   [start |-> IntV(0), end |-> IntV(0)]}
Transforms ==
  {<< >>} \cup {[k \in {"transform"} |-> DictV([j \in {"opacity"} |-> IntV(o)])] :
                 o \in {0, 50, 100}}
FxLayerUniverse ==
  {[type |-> "image", id |-> "a", z |-> 0,
    source |-> PlaceholderToken("img1")] @@ w @@ tr :
     w \in Windows, tr \in Transforms}
  \cup {[type |-> "text", id |-> "t", z |-> 0, text |-> "hi"] @@ w :
          w \in Windows}
FxLayerLists == UNION {[1..n -> FxLayerUniverse] : n \in 0..MaxFxLayers}

\* customizations.get("duration_seconds") and template.duration_seconds
DurationInputs ==
  [override : {NoneV, IntV(0), IntV(-1), IntV(7)}, template : {5}]
NoOverride == [override |-> NoneV, template |-> 5]

NoGraph ==
  [background_d |-> 0, inputs |-> <<>>, filter_lines |-> <<>>, map |-> None,
   t |-> 0]

\* ------------------------------------------------------------- karaoke text
\* CaptionService._karaoke_text on a list of word dicts.  Times are in
\* milliseconds; a word is a str or None.
MaxWords == 2

\* str.strip() on the word texts of the universe
Strip(s) ==
  CASE s = " Do " -> "Do"
    [] s = " " -> ""
    [] OTHER -> s

\* round(x) of Python 3 for x = n / d, n >= 0: to nearest, ties to even
RoundHalfEven(n, d) ==
  LET q == n \div d
      r == n % d
  IN  IF 2 * r < d THEN q
      ELSE IF 2 * r > d THEN q + 1
      ELSE IF q % 2 = 0 THEN q ELSE q + 1

Max(a, b) == IF a >= b THEN a ELSE b

\* dur_cs = max(1, int(round((end - start) * 100)))
DurCs(w) ==
  IF w.end <= w.start THEN 1
  ELSE Max(1, RoundHalfEven(w.end - w.start, 10))

\* word = (w.get("word") or "").strip()
WordText(w) == Strip(IF w.word = None THEN "" ELSE w.word)

\* f"{{\\k{dur_cs}}}{prefix}{word}"
KaraokePart(dur_cs, prefix, word) ==
  "{\\k" \o ToString(dur_cs) \o "}" \o prefix \o word

\* the loop of _karaoke_text from index idx (0-based, as enumerate counts)
RECURSIVE KaraokeFrom(_, _)
KaraokeFrom(words, idx) ==
  IF idx >= Len(words) THEN ""
  ELSE LET w == words[idx + 1]
           word == WordText(w)
       IN  IF word = "" THEN KaraokeFrom(words, idx + 1)
           ELSE KaraokePart(DurCs(w), IF idx = 0 THEN "" ELSE " ", word)
                  \o KaraokeFrom(words, idx + 1)

_karaoke_text(words) == KaraokeFrom(words, 0)

WordUniverse ==
  {[word |-> t, start |-> p[1], end |-> p[2]] :
     t \in {"Ek", " Do ", " ", None},
     p \in {<<0, 400>>, <<400, 404>>, <<0, 125>>}}
WordLists == UNION {[1..n -> WordUniverse] : n \in 0..MaxWords}

KarIdle == kar = [kpc |-> "off"]

\* ------------------------------------------------------------ ASS colours
\* CaptionService._hex_to_ass_color.  A colour string is the sequence of
\* its characters.
MaxHexLen == 6
HexChars == {"a", "b", "c"}
UpperHex == <<"0", "1", "2", "3", "4", "5", "6", "7", "8", "9",
              "A", "B", "C", "D", "E", "F">>
LowerHex == <<"0", "1", "2", "3", "4", "5", "6", "7", "8", "9",
              "a", "b", "c", "d", "e", "f">>

\* int(two characters, 16)
HexVal(ch) == CHOOSE v \in 0..15 : ch = UpperHex[v + 1] \/ ch = LowerHex[v + 1]
Int16(c, i) == 16 * HexVal(c[i]) + HexVal(c[i + 1])

\* f"{n:02X}"
Hex02X(n) == UpperHex[((n \div 16) % 16) + 1] \o UpperHex[(n % 16) + 1]

\* str.lstrip("#")
RECURSIVE LStripHash(_)
LStripHash(c) ==
  IF c # <<>> /\ Head(c) = "#" THEN LStripHash(Tail(c)) ELSE c

WhiteHex == <<"F", "F", "F", "F", "F", "F">>

\* c = (hex_color or "#FFFFFF").lstrip("#"); if len(c) != 6: c = "FFFFFF"
HexDigitsOf(hex_color) ==
  LET c == LStripHash(IF hex_color = <<>> THEN <<"#">> \o WhiteHex
                                           ELSE hex_color)
  IN  IF Len(c) # 6 THEN WhiteHex ELSE c

_hex_to_ass_color(hex_color, alpha) ==
  LET c == HexDigitsOf(hex_color)
  IN  "&H" \o Hex02X(alpha) \o Hex02X(Int16(c, 5)) \o Hex02X(Int16(c, 3))
           \o Hex02X(Int16(c, 1))

HexStrings == UNION {[1..n -> HexChars] : n \in 0..MaxHexLen}
ColourInputs == HexStrings \cup {<<"#">> \o h : h \in HexStrings}

ColIdle == col = [cpc |-> "off"]

\* ----------------------------------------------------------------- captions
\* CaptionService on the one caption of the model: upload_and_create_job,
\* process_transcription, export_captions and burn_captions_to_video, and the
\* update, export and burn endpoints.  Times are whole milliseconds; a
\* timestamp is kept as its parts (hms, the separator before the fraction,
\* the fraction) and a file as the list of its lines before "\n".join.
MaxSegs == 2

Pad2(n) == IF n < 10 THEN "0" \o ToString(n) ELSE ToString(n)
Pad3(n) == IF n < 100 THEN "0" \o Pad2(n) ELSE ToString(n)

\* hours, minutes, secs of _format_time_*
Hours(ms) == ms \div 3600000
Minutes(ms) == (ms % 3600000) \div 60000
Secs(ms) == (ms % 60000) \div 1000

\* f"{hours:02d}:{minutes:02d}:{secs:02d},{millis:03d}"
_format_time_srt(ms) ==
  [hms |-> Pad2(Hours(ms)) \o ":" \o Pad2(Minutes(ms)) \o ":" \o Pad2(Secs(ms)),
   sep |-> ",", frac |-> Pad3(ms % 1000)]

\* f"{hours:02d}:{minutes:02d}:{secs:02d}.{millis:03d}"
_format_time_vtt_Comma(ms) == _format_time_srt(ms)
_format_time_vtt(ms) ==
  [hms |-> Pad2(Hours(ms)) \o ":" \o Pad2(Minutes(ms)) \o ":" \o Pad2(Secs(ms)),
   sep |-> ".", frac |-> Pad3(ms % 1000)]

\* f"{hours}:{minutes:02d}:{secs:02d}.{centis:02d}"
_format_time_ass(ms) ==
  [hms |-> ToString(Hours(ms)) \o ":" \o Pad2(Minutes(ms)) \o ":"
             \o Pad2(Secs(ms)),
   sep |-> ".", frac |-> Pad2((ms % 1000) \div 10)]

\* a line of text, and the line f"{start} --> {end}"
TextLine(s) == [text |-> s]
TimingLine(start, end) == [start |-> start, end |-> end]

\* text, or f"{text}\n{text_english}" when the translation is asked for and
\* the segment has a non-empty one
CueText(segment, include_translation) ==
  IF /\ include_translation
     /\ "text_english" \in DOMAIN segment
     /\ segment.text_english # ""
    THEN segment.text \o "\n" \o segment.text_english
    ELSE segment.text

RECURSIVE Flatten(_)
Flatten(qs) == IF qs = <<>> THEN <<>> ELSE Head(qs) \o Flatten(Tail(qs))

_generate_srt(segments, include_translation) ==
  Flatten([i \in 1..Len(segments) |->
    <<TextLine(ToString(i)),
      TimingLine(_format_time_srt(segments[i].start_time),
                 _format_time_srt(segments[i].end_time)),
      TextLine(CueText(segments[i], include_translation)),
      TextLine("")>>])

_generate_vtt(segments, include_translation) ==
  <<TextLine("WEBVTT"), TextLine("")>> \o
  Flatten([i \in 1..Len(segments) |->
    <<TextLine(ToString(i)),
      TimingLine(_format_time_vtt(segments[i].start_time),
                 _format_time_vtt(segments[i].end_time)),
      TextLine(CueText(segments[i], include_translation)),
      TextLine("")>>])

\* the preset registry
CAPTION_STYLES ==
  "bollywood_drama" :>
    [name |-> "Bollywood Drama", font_family |-> "Montserrat, sans-serif", font_weight |-> "900",
     color |-> <<"#", "F", "F", "D", "7", "0", "0">>,
     background_color |-> [kind |-> "word", word |-> "transparent"],
     highlight_color |-> <<"#", "F", "F", "0", "0", "0", "0">>,
     position |-> "bottom"] @@
  "minimal_chic" :>
    [name |-> "Minimal Chic", font_family |-> "Inter, sans-serif", font_weight |-> "600",
     color |-> <<"#", "F", "F", "F", "F", "F", "F">>,
     background_color |-> [kind |-> "word", word |-> "transparent"],
     highlight_color |-> <<"#", "F", "F", "D", "7", "0", "0">>,
     position |-> "bottom"] @@
  "desi_vlog" :>
    [name |-> "Desi Vlog", font_family |-> "Oswald, sans-serif", font_weight |-> "700",
     color |-> <<"#", "F", "F", "F", "F", "0", "0">>,
     background_color |-> [kind |-> "hex", hex |-> <<"#", "0", "0", "0", "0", "0", "0">>],
     highlight_color |-> <<"#", "F", "F", "F", "F", "F", "F">>,
     position |-> "bottom_third"] @@
  "neon_nights" :>
    [name |-> "Neon Nights", font_family |-> "Rajdhani, sans-serif", font_weight |-> "700",
     color |-> <<"#", "0", "0", "F", "F", "0", "0">>,
     background_color |-> [kind |-> "rgba", r |-> 0, g |-> 0, b |-> 0, a100 |-> 30],
     highlight_color |-> <<"#", "F", "F", "0", "0", "F", "F">>,
     position |-> "center"] @@
  "classic_hindi" :>
    [name |-> "Classic Hindi", font_family |-> "Baloo 2, cursive", font_weight |-> "600",
     color |-> <<"#", "F", "F", "F", "F", "F", "F">>,
     background_color |-> [kind |-> "rgba", r |-> 0, g |-> 0, b |-> 0, a100 |-> 60],
     highlight_color |-> <<"#", "F", "F", "9", "9", "3", "3">>,
     position |-> "bottom"]

\* CaptionStyleSettings(): the field defaults of the schema
NoSettings == [absent |-> TRUE]
DefaultSettings ==
  [font_family |-> "Noto Sans Devanagari", font_size |-> 24,
   font_color |-> <<"#", "F", "F", "F", "F", "F", "F">>,
   background_color |-> [kind |-> "rgba", r |-> 0, g |-> 0, b |-> 0,
                         a100 |-> 70],
   position |-> "bottom"]
CustomSettings ==
  [font_family |-> "Mukta, sans-serif", font_size |-> 32,
   font_color |-> <<"#", "a", "b", "c", "a", "b", "c">>,
   background_color |-> [kind |-> "none"],
   position |-> "top"]

_alignment_from_position(position) ==
  IF position = "top" THEN 8 ELSE IF position = "center" THEN 5 ELSE 2

\* alpha = int(max(0.0, min(1.0, 1.0 - a)) * 255) for a in hundredths: the
\* product is truncated.  In double arithmetic the truncation equals the
\* exact one for every a of two decimals except a = 0.80, where
\* (1.0 - 0.8) * 255 = 50.99999999999999.
AlphaByte(a100) ==
  LET c == Max(0, 100 - Max(a100, 0))
  IN  IF a100 = 80 THEN 50 ELSE (c * 255) \div 100

\* a background colour is None, a hex string, rgba(r,g,b,a) with a in
\* hundredths, or another word
_rgba_to_ass_back_color(rgba) ==
  IF rgba.kind = "hex" THEN _hex_to_ass_color(rgba.hex, 128)
  ELSE IF rgba.kind = "rgba"
    THEN "&H" \o Hex02X(AlphaByte(rgba.a100)) \o Hex02X(rgba.b)
              \o Hex02X(rgba.g) \o Hex02X(rgba.r)
  ELSE _hex_to_ass_color(<<"#", "0", "0", "0", "0", "0", "0">>, 128)

\* background colours handed to _rgba_to_ass_back_color
BackInputs ==
  {[kind |-> "rgba", r |-> c[1], g |-> c[2], b |-> c[3], a100 |-> a] :
     c \in {<<0, 0, 0>>, <<255, 128, 16>>}, a \in (0..100) \cup {-50, 150}}
  \cup {[kind |-> "none"], [kind |-> "word", word |-> "transparent"],
        [kind |-> "hex", hex |-> <<"#", "a", "b", "c", "a", "b", "c">>]}

\* font_name.split(",")[0].strip() on the font families of the registry
FirstFont(font_family) ==
  CASE font_family = "Montserrat, sans-serif" -> "Montserrat"
    [] font_family = "Inter, sans-serif" -> "Inter"
    [] font_family = "Oswald, sans-serif" -> "Oswald"
    [] font_family = "Rajdhani, sans-serif" -> "Rajdhani"
    [] font_family = "Baloo 2, cursive" -> "Baloo 2"
    [] OTHER -> font_family

\* the fields of the Style: Default line that are not literals of the
\* format string, and the literals in which the two generators differ
StyleFromSettings(style) ==
  [fontname |-> style.font_family, fontsize |-> style.font_size,
   primary |-> _hex_to_ass_color(style.font_color, 0),
   secondary |-> _hex_to_ass_color(<<"#", "F", "F", "D", "7", "0", "0">>, 0),
   back |-> _rgba_to_ass_back_color(style.background_color),
   bold |-> -1, outline |-> 3,
   alignment |-> _alignment_from_position(style.position),
   margin_l |-> 30, margin_r |-> 30, margin_v |-> 80]

StyleFromPreset(preset) ==
  [fontname |-> FirstFont(preset.font_family),
   fontsize |-> IF preset.name \in {"Bollywood Drama", "Desi Vlog"}
                  THEN 68 ELSE 58,
   primary |-> _hex_to_ass_color(preset.color, 0),
   secondary |-> _hex_to_ass_color(preset.highlight_color, 0),
   back |-> _rgba_to_ass_back_color(preset.background_color),
   bold |-> IF preset.font_weight \in {"700", "800", "900"} THEN -1 ELSE 0,
   outline |-> 4,
   alignment |-> _alignment_from_position(preset.position),
   margin_l |-> 40, margin_r |-> 40,
   margin_v |-> IF preset.position = "bottom_third" THEN 260 ELSE 110]

\* the Dialogue lines; the segments of the model carry no words, so every
\* event shows the segment text
Dialogue(segment) ==
  [start |-> _format_time_ass(segment.start_time),
   end |-> _format_time_ass(segment.end_time),
   text |-> segment.text]
AssEvents(segments) == [i \in 1..Len(segments) |-> Dialogue(segments[i])]

\* preset = CAPTION_STYLES.get(preset_id) or CAPTION_STYLES["minimal_chic"]
PresetOrDefault(preset_id) ==
  IF preset_id \in DOMAIN CAPTION_STYLES THEN CAPTION_STYLES[preset_id]
  ELSE CAPTION_STYLES["minimal_chic"]

_generate_ass_from_preset(cap, preset_id) ==
  [style |-> StyleFromPreset(PresetOrDefault(preset_id)),
   events |-> AssEvents(cap.segments)]

\* preset_id of _generate_ass: read from caption.style_settings only when no
\* explicit style_settings were passed
PresetIdOf_Stored(cap, style_settings) ==
  IF cap.style_settings.isdict THEN cap.style_settings.preset_id ELSE None
PresetIdOf(cap, style_settings) ==
  IF style_settings = NoSettings /\ cap.style_settings.isdict
    THEN cap.style_settings.preset_id
    ELSE None

_generate_ass(cap, style_settings) ==
  LET preset_id == PresetIdOf(cap, style_settings)
  IN  IF preset_id # None /\ preset_id # "" /\ preset_id \in DOMAIN CAPTION_STYLES
        THEN _generate_ass_from_preset(cap, preset_id)
        ELSE [style |-> StyleFromSettings(IF style_settings = NoSettings
                                            THEN DefaultSettings
                                            ELSE style_settings),
              events |-> AssEvents(cap.segments)]

\* whisper segments as process_transcription stores them: text, start_time
\* and end_time taken as returned, without any check
SegUniverse ==
  {[text |-> "Ek", start_time |-> 0, end_time |-> 1500],
   [text |-> "Do, teen", start_time |-> 1500, end_time |-> 3661250],
   [text |-> "Ek", start_time |-> 2000, end_time |-> 1000],
   [text |-> "", start_time |-> 0, end_time |-> 500]}
SegLists == UNION {[1..n -> SegUniverse] : n \in 0..MaxSegs}

\* _add_translation: the English text of a segment with a non-empty text
English(text) == IF text = "Ek" THEN "One" ELSE "Two, three"
_add_translation(segments) ==
  [i \in DOMAIN segments |->
     IF segments[i].text # ""
       THEN [text |-> segments[i].text,
             start_time |-> segments[i].start_time,
             end_time |-> segments[i].end_time,
             text_english |-> English(segments[i].text)]
       ELSE segments[i]]

\* the text whisper returns with its segments: their texts in order
RECURSIVE JoinTexts(_)
JoinTexts(segments) ==
  IF segments = <<>> THEN ""
  ELSE IF Len(segments) = 1 THEN segments[1].text
  ELSE segments[1].text \o " " \o JoinTexts(Tail(segments))

\* caption.style_settings: {"preset_id": id} or {} after the upload, the
\* dumped CaptionStyleSettings or None after an update
StoredStyle(isdict, preset_id, custom) ==
  [isdict |-> isdict, preset_id |-> preset_id, custom |-> custom]

NoCaption(st) ==
  [status |-> st, segments |-> <<>>, transcription_text |-> None,
   style_settings |-> StoredStyle(FALSE, None, NoSettings),
   is_edited |-> FALSE]

Formats == {"srt", "vtt", "ass", "json", "txt"}
PresetInputs == {None, "neon_nights", "desi_vlog", "no_such_preset"}
BurnPresetInputs == {"minimal_chic", "neon_nights", "no_such_preset"}
StyleInputs == {NoSettings, DefaultSettings, CustomSettings}
Http(code) == [kind |-> "http", code |-> code]

\* an update request: each field is unset or carries a value
Unsent == [sent |-> FALSE]
Sent(v) == [sent |-> TRUE, value |-> v]
UpdateInputs ==
  [segments : {Unsent, Sent(<<>>)} \cup {Sent(<<g>>) : g \in SegUniverse},
   style_settings : {Unsent} \cup {Sent(v) : v \in StyleInputs}]

CapIdle ==
  /\ caption = NoCaption("off")
  /\ response = [kind |-> "none"]

CompIdle ==
  /\ layers = <<>>
  /\ asset_paths = {}
  /\ graph = NoGraph
  /\ cpc = "off"
  /\ dur = NoOverride

\* the compiler alone, on every layer list of the universe and every set of
\* downloaded asset fields
TmpIdle == tmp = [tpc |-> "off"]
RateIdle == rate = [now |-> 0, last |-> [status |-> 0]]
SysIdle == TmpIdle /\ RateIdle

JobsIdle ==
  /\ user_templates = <<>>
  /\ credits_remaining = 0
  /\ pc = [t \in Tasks |-> "idle"]
  /\ tjob = [t \in Tasks |-> 0]
  /\ seen_credits = [t \in Tasks |-> 0]
  /\ fail = [t \in Tasks |-> "none"]
  /\ stderr = [t \in Tasks |-> None]
  /\ storage = {}

InitCompile ==
  /\ JobsIdle /\ SysIdle
  /\ layers \in LayerLists
  /\ asset_paths \in SUBSET PlaceholderKeys
  /\ graph = NoGraph
  /\ cpc = "ready"
  /\ dur = NoOverride
  /\ ResIdle /\ KarIdle /\ ColIdle /\ CapIdle

\* the compiler on layers with windows and opacities, under every duration
\* override
InitCompileFx ==
  /\ JobsIdle /\ SysIdle
  /\ layers \in FxLayerLists
  /\ asset_paths \in SUBSET {"img1"}
  /\ graph = NoGraph
  /\ cpc = "ready"
  /\ dur \in DurationInputs
  /\ ResIdle /\ KarIdle /\ ColIdle /\ CapIdle

render_video_compile ==
  /\ cpc = "ready"
  /\ graph' = CompileGraph(layers, asset_paths, dur)
  /\ cpc' = "compiled"
  /\ UNCHANGED <<layers, asset_paths, dur>>

NextCompile == render_video_compile /\ UNCHANGED <<jobvars, sysvars, purevars, capvars>>
SpecCompile == InitCompile /\ [][NextCompile]_vars
SpecCompileFx == InitCompileFx /\ [][NextCompile]_vars

Init ==
  InitJobs /\ CompIdle /\ ResIdle /\ KarIdle /\ ColIdle /\ CapIdle /\ SysIdle

Next ==
  \/ (\E j \in JobIds : use_template(j)) /\ UNCHANGED notjobvars
  \/ (\E t \in Tasks, j \in JobIds : render_select(t, j)) /\ UNCHANGED notjobvars
  \/ (\E t \in Tasks : render_commit_status(t)) /\ UNCHANGED notjobvars
  \/ (\E t \in Tasks : render_schedule(t)) /\ UNCHANGED notjobvars
  \/ (\E t \in Tasks : exec_load(t)) /\ UNCHANGED notjobvars
  \/ (\E t \in Tasks : exec_prepare_assets(t)) /\ UNCHANGED notjobvars
  \/ (\E t \in Tasks : exec_render_video(t)) /\ UNCHANGED notjobvars
  \/ (\E t \in Tasks : exec_upload_video(t)) /\ UNCHANGED notjobvars
  \/ (\E t \in Tasks : exec_thumbnail(t)) /\ UNCHANGED notjobvars
  \/ (\E t \in Tasks : exec_publish(t)) /\ UNCHANGED notjobvars

Spec == Init /\ [][Next]_vars

\* the event loop runs every accepted request and every scheduled background
\* task to its end; request arrival is not forced
FairSpec ==
  Spec /\ \A t \in Tasks : WF_vars((HandlerStep(t) \/ ExecStep(t)) /\ UNCHANGED notjobvars)

\* the resolver alone: every object of the universe under every context,
\* resolved once and then the result resolved again
InitResolve ==
  /\ JobsIdle /\ SysIdle /\ CompIdle /\ KarIdle /\ ColIdle /\ CapIdle
  /\ \E ctx \in Contexts, x \in Objects(MaxDepth) :
       res = [rpc |-> "ready", ctx |-> ctx, x |-> x, once |-> Unset,
              twice |-> Unset]

resolve_once ==
  /\ res.rpc = "ready"
  /\ res' = [res EXCEPT !.once = resolve_obj(res.ctx, res.x), !.rpc = "once"]

resolve_again ==
  /\ res.rpc = "once"
  /\ res' = [res EXCEPT !.twice = resolve_obj(res.ctx, res.once),
                        !.rpc = "twice"]

NextResolve ==
  \/ resolve_once /\ UNCHANGED <<jobvars, sysvars, compvars, kar, col, capvars>>
  \/ resolve_again /\ UNCHANGED <<jobvars, sysvars, compvars, kar, col, capvars>>

SpecResolve == InitResolve /\ [][NextResolve]_vars

\* _karaoke_text alone, on every word list of the universe
InitKaraoke ==
  /\ JobsIdle /\ SysIdle /\ CompIdle /\ ResIdle /\ ColIdle /\ CapIdle
  /\ \E ws \in WordLists : kar = [kpc |-> "ready", words |-> ws, out |-> None]

karaoke_text ==
  /\ kar.kpc = "ready"
  /\ kar' = [kar EXCEPT !.out = _karaoke_text(kar.words), !.kpc = "built"]

NextKaraoke ==
  karaoke_text /\ UNCHANGED <<jobvars, sysvars, compvars, res, col, capvars>>

SpecKaraoke == InitKaraoke /\ [][NextKaraoke]_vars

\* _hex_to_ass_color alone, on every colour string of the universe
InitColour ==
  /\ JobsIdle /\ SysIdle /\ CompIdle /\ ResIdle /\ KarIdle /\ CapIdle
  /\ \E h \in ColourInputs, a \in {0, 128} :
       col = [cpc |-> "ready", hex_color |-> h, alpha |-> a, out |-> None]

hex_to_ass_color ==
  /\ col.cpc = "ready"
  /\ col' = [col EXCEPT !.out = _hex_to_ass_color(col.hex_color, col.alpha),
                        !.cpc = "converted"]

NextColour ==
  hex_to_ass_color /\ UNCHANGED <<jobvars, sysvars, compvars, res, kar, capvars>>

SpecColour == InitColour /\ [][NextColour]_vars

\* _rgba_to_ass_back_color alone, on every background colour of BackInputs
InitBack ==
  /\ JobsIdle /\ SysIdle /\ CompIdle /\ ResIdle /\ KarIdle /\ CapIdle
  /\ \E c \in BackInputs : col = [cpc |-> "ready", rgba |-> c, out |-> None]

rgba_to_ass_back_color ==
  /\ col.cpc = "ready"
  /\ col' = [col EXCEPT !.out = _rgba_to_ass_back_color(col.rgba),
                        !.cpc = "converted"]

NextBack ==
  rgba_to_ass_back_color /\ UNCHANGED <<jobvars, sysvars, compvars, res, kar, capvars>>

SpecBack == InitBack /\ [][NextBack]_vars

\* the caption endpoints on one caption
InitCaption ==
  /\ JobsIdle /\ SysIdle /\ CompIdle /\ ResIdle /\ KarIdle /\ ColIdle
  /\ caption = NoCaption("absent")
  /\ response = [kind |-> "none"]

\* upload_and_create_job: the row is created pending, with
\* style_settings = {"preset_id": id} if id else {}
upload_and_create_job(style_preset_id) ==
  /\ caption.status = "absent"
  /\ caption' = [caption EXCEPT
       !.status = "pending",
       !.style_settings = StoredStyle(TRUE, style_preset_id, NoSettings)]
  /\ response' = [kind |-> "accepted"]

\* process_transcription: a failure of download or transcription marks the
\* caption failed; otherwise text and segments are stored as returned and
\* the caption is completed
process_transcription(whisper, translate, ok) ==
  /\ caption.status = "pending"
  /\ IF ok
       THEN caption' = [caption EXCEPT
              !.transcription_text = JoinTexts(whisper),
              !.segments = IF translate THEN _add_translation(whisper)
                                        ELSE whisper,
              !.status = "completed"]
       ELSE caption' = [caption EXCEPT !.status = "failed"]
  /\ UNCHANGED response

\* PUT /captions/{id}: a non-empty segments list reaches s.model_dump() on
\* the dicts of update_data.model_dump() and raises before the commit; every
\* other sent field is set as it is
update_caption(upd) ==
  /\ caption.status # "off"
  /\ IF caption.status = "absent" THEN
       /\ response' = Http(404) /\ UNCHANGED caption
     ELSE IF caption.status # "completed" THEN
       /\ response' = Http(400) /\ UNCHANGED caption
     ELSE IF upd.segments.sent /\ upd.segments.value # <<>> THEN
       /\ response' = Http(500) /\ UNCHANGED caption
     ELSE
       /\ caption' = [caption EXCEPT
            !.segments = IF upd.segments.sent THEN upd.segments.value ELSE @,
            !.style_settings =
               IF ~upd.style_settings.sent THEN @
               ELSE IF upd.style_settings.value = NoSettings
                 THEN StoredStyle(FALSE, None, NoSettings)
                 ELSE StoredStyle(TRUE, None, upd.style_settings.value)]
       /\ response' = [kind |-> "update"]

\* export_captions: content by format
ExportContent(cap, format, include_translation, style_settings) ==
  CASE format = "srt" -> _generate_srt(cap.segments, include_translation)
    [] format = "vtt" -> _generate_vtt(cap.segments, include_translation)
    [] format = "ass" -> _generate_ass(cap, style_settings)
    [] format = "json" -> cap.segments
    [] OTHER -> cap.transcription_text

\* POST /captions/{id}/export
export_caption(format, include_translation, style_settings) ==
  /\ caption.status # "off"
  /\ UNCHANGED caption
  /\ IF caption.status = "absent" THEN response' = Http(404)
     ELSE IF caption.status # "completed" THEN response' = Http(400)
     ELSE response' =
            [kind |-> "export", format |-> format,
             include_translation |-> include_translation,
             style_settings |-> style_settings,
             content |-> ExportContent(caption, format, include_translation,
                                       style_settings)]

\* POST /captions/{id}/burn: the ASS file comes from the preset named in the
\* query; a failure of download, encoder or upload becomes a 500
burn_captions_into_video(style_preset_id, ok) ==
  /\ caption.status # "off"
  /\ UNCHANGED caption
  /\ IF caption.status = "absent" THEN response' = Http(404)
     ELSE IF caption.status # "completed" THEN response' = Http(400)
     ELSE IF ~ok THEN response' = Http(500)
     ELSE response' =
            [kind |-> "burn", style_preset_id |-> style_preset_id,
             ass |-> _generate_ass_from_preset(caption, style_preset_id)]

NextCaption ==
  \/ (\E p \in PresetInputs : upload_and_create_job(p))
       /\ UNCHANGED <<jobvars, sysvars, compvars, purevars>>
  \/ (\E w \in SegLists, tr, ok \in BOOLEAN : process_transcription(w, tr, ok))
       /\ UNCHANGED <<jobvars, sysvars, compvars, purevars>>
  \/ (\E upd \in UpdateInputs : update_caption(upd))
       /\ UNCHANGED <<jobvars, sysvars, compvars, purevars>>
  \/ (\E f \in Formats, inc \in BOOLEAN, st \in StyleInputs :
        export_caption(f, inc, st))
       /\ UNCHANGED <<jobvars, sysvars, compvars, purevars>>
  \/ (\E p \in BurnPresetInputs, ok \in BOOLEAN :
        burn_captions_into_video(p, ok))
       /\ UNCHANGED <<jobvars, sysvars, compvars, purevars>>

SpecCaption == InitCaption /\ [][NextCaption]_vars

\* -------------------------------------------------------------- credits
\* The requests that cost credits, on the credits_remaining of one user.  A
\* task is one request: POST /templates/render (render_select,
\* render_commit_status, render_schedule), POST /captions/generate or
\* POST /captions/upload.  Each handler works on the copy of the user that
\* get_current_user loaded and writes credits_remaining from that copy at its
\* last commit; the caption row it creates is the subject of SpecCaption.

\* POST /captions/generate up to create_caption_job: 402 when the loaded
\* credits are <= 0
generate_captions(t) ==
  /\ pc[t] = "idle"
  /\ seen_credits' = [seen_credits EXCEPT ![t] =
        IF credits_remaining > 0 THEN credits_remaining ELSE 0]
  /\ pc' = [pc EXCEPT ![t] =
              IF credits_remaining <= 0 THEN "http402" ELSE "cap_create"]
  /\ UNCHANGED <<user_templates, credits_remaining, tjob, fail, stderr,
                 storage>>

\* POST /captions/upload up to upload_and_create_job: 400 on a file of the
\* wrong type or size; the handler does not read the credits
upload_and_generate_captions(t, valid_file) ==
  /\ pc[t] = "idle"
  /\ seen_credits' = [seen_credits EXCEPT ![t] =
        IF valid_file THEN credits_remaining ELSE 0]
  /\ pc' = [pc EXCEPT ![t] = IF valid_file THEN "cap_create" ELSE "http400"]
  /\ UNCHANGED <<user_templates, credits_remaining, tjob, fail, stderr,
                 storage>>

\* current_user.credits_remaining -= 2
CaptionCost(seen) == seen - 2

\* the job row is committed, the background task added;
\* credits_remaining -= 2; await db.commit()
caption_deduct(t) ==
  /\ pc[t] = "cap_create"
  /\ credits_remaining' = CaptionCost(seen_credits[t])
  /\ seen_credits' = [seen_credits EXCEPT ![t] = 0]
  /\ pc' = [pc EXCEPT ![t] = "cap_accepted"]
  /\ UNCHANGED <<user_templates, tjob, fail, stderr, storage>>

NextCredits ==
  \/ (\E j \in JobIds : use_template(j)) /\ UNCHANGED notjobvars
  \/ (\E t \in Tasks, j \in JobIds : render_select(t, j))
       /\ UNCHANGED notjobvars
  \/ (\E t \in Tasks : render_commit_status(t)) /\ UNCHANGED notjobvars
  \/ (\E t \in Tasks : render_schedule(t)) /\ UNCHANGED notjobvars
  \/ (\E t \in Tasks : generate_captions(t)) /\ UNCHANGED notjobvars
  \/ (\E t \in Tasks, v \in BOOLEAN : upload_and_generate_captions(t, v))
       /\ UNCHANGED notjobvars
  \/ (\E t \in Tasks : caption_deduct(t)) /\ UNCHANGED notjobvars

SpecCredits == Init /\ [][NextCredits]_vars

\* ------------------------------------------------------------ rate limit
\* RateLimitMiddleware.dispatch of one middleware instance.  The clock is
\* datetime.now() in whole ticks and does not run backwards; the minute and
\* settings.RATE_LIMIT_PER_MINUTE (60 seconds, 60 requests) are scaled down.
\* dispatch has no await before call_next, so one request is one step.
MaxTime == 4
Minute == 2
RATE_LIMIT_PER_MINUTE == 2

Hosts == {"h1"}
Peers == Hosts \cup {None}
ExemptPaths == {"/", "/health", "/docs", "/redoc", "/openapi.json"}
Paths == {"/health", "/api/v1/captions"}

\* client_id = request.client.host if request.client else "unknown"
ClientId(peer) == IF peer = None THEN "unknown" ELSE peer
ClientIds == {ClientId(p) : p \in Peers}

\* [timestamp for timestamp in data if timestamp > minute_ago]
RECURSIVE CleanOld(_, _)
CleanOld(data, minute_ago) ==
  IF data = <<>> THEN <<>>
  ELSE IF Head(data) > minute_ago
    THEN <<Head(data)>> \o CleanOld(Tail(data), minute_ago)
    ELSE CleanOld(Tail(data), minute_ago)

LimitExceeded_Above(data) == Len(data) > RATE_LIMIT_PER_MINUTE
\* len(self.rate_limit_data[client_id]) >= settings.RATE_LIMIT_PER_MINUTE
LimitExceeded(data) == Len(data) >= RATE_LIMIT_PER_MINUTE

InitRate ==
  /\ JobsIdle /\ CompIdle /\ ResIdle /\ KarIdle /\ ColIdle /\ CapIdle
  /\ TmpIdle
  /\ rate = [now |-> 0,
             rate_limit_data |-> [c \in ClientIds |-> <<>>],
             passed |-> [c \in ClientIds |-> <<>>],
             last |-> [client |-> None, status |-> 0]]

\* time passes between two requests
tick ==
  /\ rate.now < MaxTime
  /\ rate' = [rate EXCEPT !.now = @ + 1,
                          !.last = [client |-> None, status |-> 0]]

\* one request through the middleware; passed[c] lists the times at which a
\* non-exempt request of client c reached call_next
dispatch(peer, path) ==
  LET client_id == ClientId(peer)
      now == rate.now
      kept == CleanOld(rate.rate_limit_data[client_id], now - Minute)
  IN  IF path \in ExemptPaths THEN
        rate' = [rate EXCEPT !.last = [client |-> client_id, status |-> 200]]
      ELSE IF LimitExceeded(kept) THEN
        rate' = [rate EXCEPT !.rate_limit_data[client_id] = kept,
                            !.last = [client |-> client_id, status |-> 429]]
      ELSE
        rate' = [rate EXCEPT
                   !.rate_limit_data[client_id] = Append(kept, now),
                   !.passed[client_id] = Append(@, now),
                   !.last = [client |-> client_id, status |-> 200]]

NextRate ==
  \/ tick /\ UNCHANGED <<jobvars, compvars, purevars, capvars, tmp>>
  \/ (\E peer \in Peers, path \in Paths : dispatch(peer, path))
       /\ UNCHANGED <<jobvars, compvars, purevars, capvars, tmp>>

SpecRate == InitRate /\ [][NextRate]_vars

\* ------------------------------------------------------- temporary files
\* The temporary files and directories of process_transcription,
\* burn_captions_to_video and render_template.  Calls run one after another;
\* tmp.files is what exists on disk, tmp.locals the local variables of the
\* running call.  Every step that can raise takes the outcome as input.
MaxCalls == 2

TempFile(n, kind) == "tmp" \o ToString(n) \o "/" \o kind
NoLocals ==
  [tmp_path |-> None, audio_path |-> None, tmp_video |-> None,
   tmp_ass |-> None, tmp_out |-> None, tmp_dir |-> None]

\* if path and os.path.exists(path): os.unlink(path)
Unlink(files, path) == files \ {path}

\* TemporaryDirectory.__exit__: the directory and everything below it
RemoveTree(files, n) ==
  files \ {TempFile(n, k) : k \in {"dir", "asset", "output", "thumbnail"}}

InitTemp ==
  /\ JobsIdle /\ CompIdle /\ ResIdle /\ KarIdle /\ ColIdle /\ CapIdle
  /\ RateIdle
  /\ tmp = [tpc |-> "idle", calls |-> 0, files |-> {}, locals |-> NoLocals]

Operations ==
  {"process_transcription", "burn_captions_to_video", "render_template"}

\* a call begins; its locals are fresh
call(op) ==
  /\ tmp.tpc = "idle"
  /\ tmp.calls < MaxCalls
  /\ tmp' = [tmp EXCEPT !.calls = @ + 1, !.locals = NoLocals,
                        !.tpc = CASE op = "process_transcription" -> "pt_get"
                                  [] op = "burn_captions_to_video" -> "bc_get"
                                  [] OTHER -> "rt_tmpdir"]

\* the call has returned (the except block of process_transcription and
\* render_template swallows the exception; burn_captions_to_video raises)
Return(t) == [t EXCEPT !.tpc = "idle"]

\* process_transcription: client.get(source_file_url)
pt_get(ok) ==
  /\ tmp.tpc = "pt_get"
  /\ tmp' = IF ok THEN [tmp EXCEPT !.tpc = "pt_write"] ELSE Return(tmp)

\* with NamedTemporaryFile(delete=False) as tmp: tmp.write(...);
\* tmp_path = tmp.name -- the file exists from the constructor on, and a
\* failed write leaves the with block before tmp_path is assigned and
\* before the inner try is entered
pt_write(ok) ==
  /\ tmp.tpc = "pt_write"
  /\ LET f == TempFile(tmp.calls, "source")
         created == [tmp EXCEPT !.files = @ \cup {f}]
     IN  tmp' = IF ok
                  THEN [created EXCEPT !.locals.tmp_path = f,
                                       !.tpc = "pt_extract"]
                  ELSE Return(created)

\* audio_path = tmp_path + ".mp3"; _extract_audio returns True or False and
\* the encoder may leave a file in both cases
pt_extract(wrote) ==
  /\ tmp.tpc = "pt_extract"
  /\ LET f == TempFile(tmp.calls, "audio")
     IN  tmp' = [tmp EXCEPT !.locals.audio_path = f,
                           !.files = IF wrote THEN @ \cup {f} ELSE @,
                           !.tpc = "pt_transcribe"]

\* the Whisper call and the processing of its answer, then the finally
\* block, whether they raised or not
pt_transcribe(ok) ==
  /\ tmp.tpc = "pt_transcribe"
  /\ tmp' = Return([tmp EXCEPT !.files =
                Unlink(Unlink(@, tmp.locals.tmp_path), tmp.locals.audio_path)])

\* burn_captions_to_video: the download before the try block
bc_get(ok) ==
  /\ tmp.tpc = "bc_get"
  /\ tmp' = IF ok THEN [tmp EXCEPT !.tpc = "bc_video"] ELSE Return(tmp)

\* finally: unlink tmp_video, tmp_ass and tmp_out where set
BurnFinally(t) ==
  Return([t EXCEPT !.files =
            Unlink(Unlink(Unlink(@, t.locals.tmp_video), t.locals.tmp_ass),
                   t.locals.tmp_out)])

\* with NamedTemporaryFile(delete=False, suffix=ext) as f:
\*     f.write(video_bytes); tmp_video = f.name
bc_video(ok) ==
  /\ tmp.tpc = "bc_video"
  /\ LET f == TempFile(tmp.calls, "video")
         created == [tmp EXCEPT !.files = @ \cup {f}]
     IN  tmp' = IF ok
                  THEN [created EXCEPT !.locals.tmp_video = f,
                                       !.tpc = "bc_ass"]
                  ELSE BurnFinally(created)

\* with NamedTemporaryFile(delete=False, suffix=".ass") as f:
\*     f.write(ass_content); tmp_ass = f.name
bc_ass(ok) ==
  /\ tmp.tpc = "bc_ass"
  /\ LET f == TempFile(tmp.calls, "ass")
         created == [tmp EXCEPT !.files = @ \cup {f}]
     IN  tmp' = IF ok
                  THEN [created EXCEPT !.locals.tmp_ass = f,
                                       !.tpc = "bc_encode"]
                  ELSE BurnFinally(created)

\* tmp_out = tmp_video + ".burned.mp4"; subprocess.run(check=True); the
\* encoder may leave an output when it fails; then read, upload, commit
bc_encode(ok, wrote, uploaded) ==
  /\ tmp.tpc = "bc_encode"
  /\ LET f == TempFile(tmp.calls, "burned")
     IN  tmp' = BurnFinally(
                  [tmp EXCEPT !.locals.tmp_out = f,
                              !.files = IF ok \/ wrote THEN @ \cup {f}
                                                       ELSE @])

\* render_template: with tempfile.TemporaryDirectory() as tmp_dir
rt_tmpdir(ok) ==
  /\ tmp.tpc = "rt_tmpdir"
  /\ LET d == TempFile(tmp.calls, "dir")
     IN  tmp' = IF ok
                  THEN [tmp EXCEPT !.files = @ \cup {d},
                                   !.locals.tmp_dir = d, !.tpc = "rt_assets"]
                  ELSE Return(tmp)

\* leaving the with block, normally or by an exception
RenderExit(t) == Return([t EXCEPT !.files = RemoveTree(@, t.calls)])

\* _prepare_assets downloads into tmp_dir
rt_assets(ok, wrote) ==
  /\ tmp.tpc = "rt_assets"
  /\ LET t == [tmp EXCEPT !.files =
                 IF ok \/ wrote THEN @ \cup {TempFile(tmp.calls, "asset")}
                                ELSE @]
     IN  tmp' = IF ok THEN [t EXCEPT !.tpc = "rt_encode"] ELSE RenderExit(t)

\* _render_video writes text files and the output into tmp_dir
rt_encode(ok, wrote) ==
  /\ tmp.tpc = "rt_encode"
  /\ LET t == [tmp EXCEPT !.files =
                 IF ok \/ wrote THEN @ \cup {TempFile(tmp.calls, "output")}
                                ELSE @]
     IN  tmp' = IF ok THEN [t EXCEPT !.tpc = "rt_upload"] ELSE RenderExit(t)

\* the upload of the video
rt_upload(ok) ==
  /\ tmp.tpc = "rt_upload"
  /\ tmp' = IF ok THEN [tmp EXCEPT !.tpc = "rt_thumbnail"]
                   ELSE RenderExit(tmp)

\* _generate_thumbnail writes thumbnail.jpg into tmp_dir; its upload; the
\* with block ends
rt_thumbnail(ok, wrote) ==
  /\ tmp.tpc = "rt_thumbnail"
  /\ tmp' = RenderExit(
              [tmp EXCEPT !.files =
                 IF ok \/ wrote
                   THEN @ \cup {TempFile(tmp.calls, "thumbnail")}
                   ELSE @])

NextTemp ==
  \/ (\E op \in Operations : call(op))
       /\ UNCHANGED <<jobvars, compvars, purevars, capvars, rate>>
  \/ (\E ok \in BOOLEAN : pt_get(ok))
       /\ UNCHANGED <<jobvars, compvars, purevars, capvars, rate>>
  \/ (\E ok \in BOOLEAN : pt_write(ok))
       /\ UNCHANGED <<jobvars, compvars, purevars, capvars, rate>>
  \/ (\E wrote \in BOOLEAN : pt_extract(wrote))
       /\ UNCHANGED <<jobvars, compvars, purevars, capvars, rate>>
  \/ (\E ok \in BOOLEAN : pt_transcribe(ok))
       /\ UNCHANGED <<jobvars, compvars, purevars, capvars, rate>>
  \/ (\E ok \in BOOLEAN : bc_get(ok))
       /\ UNCHANGED <<jobvars, compvars, purevars, capvars, rate>>
  \/ (\E ok \in BOOLEAN : bc_video(ok))
       /\ UNCHANGED <<jobvars, compvars, purevars, capvars, rate>>
  \/ (\E ok \in BOOLEAN : bc_ass(ok))
       /\ UNCHANGED <<jobvars, compvars, purevars, capvars, rate>>
  \/ (\E ok, wrote, uploaded \in BOOLEAN : bc_encode(ok, wrote, uploaded))
       /\ UNCHANGED <<jobvars, compvars, purevars, capvars, rate>>
  \/ (\E ok \in BOOLEAN : rt_tmpdir(ok))
       /\ UNCHANGED <<jobvars, compvars, purevars, capvars, rate>>
  \/ (\E ok, wrote \in BOOLEAN : rt_assets(ok, wrote))
       /\ UNCHANGED <<jobvars, compvars, purevars, capvars, rate>>
  \/ (\E ok, wrote \in BOOLEAN : rt_encode(ok, wrote))
       /\ UNCHANGED <<jobvars, compvars, purevars, capvars, rate>>
  \/ (\E ok \in BOOLEAN : rt_upload(ok))
       /\ UNCHANGED <<jobvars, compvars, purevars, capvars, rate>>
  \/ (\E ok, wrote \in BOOLEAN : rt_thumbnail(ok, wrote))
       /\ UNCHANGED <<jobvars, compvars, purevars, capvars, rate>>

SpecTemp == InitTemp /\ [][NextTemp]_vars

\* ------------------------------------------------------------ properties
Terminal == {"completed", "failed"}
Active == {"schedule"} \cup ExecPhases
Row(t) == user_templates[tjob[t]]
StatusIs(j, S) ==
  IF j \in DOMAIN user_templates THEN user_templates[j].status \in S ELSE FALSE

\* C1: at no time are two render executions (accepted start-render requests
\* that have not finished) active for the same job; of two concurrent
\* requests on a draft job only one performs the transition.
C1_AtMostOneRender ==
  \A t1, t2 \in Tasks :
    (t1 # t2 /\ tjob[t1] = tjob[t2])
    => ~(pc[t1] \in Active /\ pc[t2] \in Active)

\* C2: a start-render request whose write finds the job in a status other
\* than "draft" fails: it changes no row and schedules no execution.
C2_NonDraftRejected ==
  [][\A t \in Tasks :
       (pc[t] = "commit_status" /\ pc'[t] # pc[t] /\ Row(t).status # "draft")
       => /\ user_templates' = user_templates
          /\ credits_remaining' = credits_remaining
          /\ pc'[t] \notin Active]_vars

\* C3: output_url is set if and only if status = "completed".
C3_OutputIffCompleted ==
  \A j \in DOMAIN user_templates :
    (user_templates[j].output_url # None)
      <=> (user_templates[j].status = "completed")

\* C4: the status only moves draft -> rendering -> {completed, failed};
\* a completed or failed job never changes status again.
C4_StatusMachine ==
  [][\A j \in DOMAIN user_templates :
       \/ user_templates'[j].status = user_templates[j].status
       \/ <<user_templates[j].status, user_templates'[j].status>> \in
            {<<"draft", "rendering">>, <<"rendering", "completed">>,
             <<"rendering", "failed">>}]_vars

\* C5: render_progress never decreases and stays within 0..100.
C5_ProgressMonotonic ==
  [][\A j \in DOMAIN user_templates :
       /\ user_templates'[j].render_progress >= user_templates[j].render_progress
       /\ user_templates'[j].render_progress \in 0..100]_vars

\* C6: every started render execution terminates, leaving the job completed
\* or failed at that moment; a job in "rendering" eventually is completed or
\* failed; a failed job has an error message.
C6_Terminates ==
  /\ \A t \in Tasks : (pc[t] \in ExecPhases) ~> (pc[t] = "done")
  /\ \A j \in JobIds :
       StatusIs(j, {"rendering"}) ~> StatusIs(j, Terminal)
  /\ [][\A t \in Tasks : (pc[t] \in ExecPhases /\ pc'[t] = "done")
          => user_templates'[tjob[t]].status \in Terminal]_vars
  /\ [](\A j \in DOMAIN user_templates :
          user_templates[j].status = "failed"
            => user_templates[j].error_message # None)

\* an execution ended by a failing phase, job failed with a message
C6_Witness ==
  \E t \in Tasks :
    /\ pc[t] = "done" /\ fail[t] \in {"asset", "encode", "upload_video",
                                      "thumbnail", "upload_thumbnail"}
    /\ Row(t).status = "failed" /\ Row(t).error_message # None

\* C7: an execution that ended in failure has uploaded neither video nor
\* poster; an execution that completed has uploaded both.
C7_NoPartialPublish ==
  \A t \in Tasks :
    pc[t] = "done" =>
      IF fail[t] # "none"
        THEN <<t, "video">> \notin storage /\ <<t, "poster">> \notin storage
        ELSE <<t, "video">> \in storage /\ <<t, "poster">> \in storage

\* C8: when the encoder exits nonzero, the execution ends at once with the
\* job failed and the error message containing the captured stderr; it
\* uploads nothing and sets neither output_url nor thumbnail_url.
C8_EncoderFailure ==
  /\ [][\A t \in Tasks :
          (pc[t] = "encode" /\ stderr'[t] # None) =>
            /\ pc'[t] = "done"
            /\ user_templates'[tjob[t]].status = "failed"
            /\ user_templates'[tjob[t]].error_message
                 = "FFmpeg error: " \o stderr'[t]
            /\ user_templates'[tjob[t]].output_url = Row(t).output_url
            /\ user_templates'[tjob[t]].thumbnail_url = Row(t).thumbnail_url
            /\ storage' = storage]_vars
  /\ [](\A t \in Tasks :
          stderr[t] # None =>
            /\ pc[t] = "done"
            /\ <<t, "video">> \notin storage /\ <<t, "poster">> \notin storage)

\* an execution whose encoder exited nonzero has ended
C8_Witness ==
  \E t \in Tasks :
    /\ pc[t] = "done" /\ fail[t] = "encode" /\ stderr[t] \in Diagnostics
    /\ Row(t).status = "failed"

\* C9: a failing download of one layer's source does not fail the render:
\* the execution goes on to the encode phase.
C9_MissingAssetDegrades ==
  [][\A t \in Tasks :
       (pc[t] = "assets" /\ fail'[t] = "asset") =>
         /\ pc'[t] = "encode"
         /\ user_templates'[tjob[t]].status # "failed"]_vars

\* the overlay / drawtext lines of the compiled chain, in chain order
RECURSIVE SelectOps(_, _)
SelectOps(lines, ops) ==
  IF lines = <<>> THEN <<>>
  ELSE IF Head(lines).op \in ops
    THEN <<Head(lines)>> \o SelectOps(Tail(lines), ops)
    ELSE SelectOps(Tail(lines), ops)
Composites == SelectOps(graph.filter_lines, {"overlay", "drawtext"})

\* the z a layer declares (0 when it declares none)
DeclaredZ(l) == IF "z" \in DOMAIN l THEN l.z ELSE 0

\* C10: the overlay / drawtext operations appear in non-decreasing z, and
\* operations of layers with equal z appear in declaration order.
C10_ZOrder ==
  cpc = "compiled" =>
    \A i, j \in 1..Len(Composites) :
      i < j =>
        LET a == Composites[i].pos
            b == Composites[j].pos
        IN /\ DeclaredZ(layers[a]) <= DeclaredZ(layers[b])
           /\ DeclaredZ(layers[a]) = DeclaredZ(layers[b]) => a < b

\* a layer declared later with a lower z is composited first, and two
\* layers of equal z are both composited
C10_Witness ==
  /\ cpc = "compiled"
  /\ \E i, j \in 1..Len(Composites) :
       /\ i < j /\ Composites[i].pos > Composites[j].pos
  /\ \E i, j \in 1..Len(Composites) :
       /\ i < j
       /\ DeclaredZ(layers[Composites[i].pos]) = DeclaredZ(layers[Composites[j].pos])

\* C11: token fixed point -- resolving the tokens of an already resolved
\* object returns it unchanged: resolve(resolve(x)) = resolve(x), also when a
\* customization or a default value is itself a string.
C11_FixedPoint == res.rpc = "twice" => res.twice = res.once

MissingRequiredField == [error |-> "MissingRequiredField"]
RequiredUnresolvable(ctx, key) ==
  /\ key \in DOMAIN ctx.placeholders
  /\ ctx.placeholders[key].required
  /\ "default" \notin DOMAIN ctx.placeholders[key]
  /\ key \notin DOMAIN ctx.customizations

\* C12: resolving a $placeholder.<id> reference whose placeholder is declared
\* required, has no value in the customization and has no default raises
\* MissingRequiredField; it is not silently resolved to null.
C12_RequiredRaises ==
  \A k \in PlaceholderKeys :
    (/\ res.rpc \in {"once", "twice"}
     /\ res.x = StrV(PlaceholderToken(k))
     /\ RequiredUnresolvable(res.ctx, k))
      => res.once = MissingRequiredField

\* C19: when the base template of a job cannot be loaded, the execution stops
\* at once: the job's progress is left as it was and no asset download,
\* encode or upload step is executed.
C19_TemplateMissingStops ==
  /\ [][\A t \in Tasks :
          (pc[t] = "load" /\ fail'[t] = "template") =>
            /\ pc'[t] = "done"
            /\ user_templates'[tjob[t]].render_progress
                 = Row(t).render_progress
            /\ storage' = storage /\ stderr' = stderr]_vars
  /\ [](\A t \in Tasks :
          fail[t] = "template" =>
            /\ pc[t] = "done" /\ stderr[t] = None
            /\ <<t, "video">> \notin storage /\ <<t, "poster">> \notin storage)

\* an execution that found its base template missing has ended
C19_Witness ==
  \E t \in Tasks :
    pc[t] = "done" /\ fail[t] = "template" /\ Row(t).render_progress = 0

\* C20 as stated: an execution that finds the base template missing leaves
\* the whole job record (status, progress, output_url, thumbnail_url,
\* error_message) as it was.
C20_NoStateChange ==
  [][\A t \in Tasks :
       (pc[t] = "load" /\ fail'[t] = "template") =>
         user_templates'[tjob[t]] = Row(t)]_vars

\* C20 amended: an execution that finds the base template missing changes
\* only status, to "failed", and error_message, to "Base template not
\* found"; progress, output_url and thumbnail_url are as before.
C20_OnlyStatusAndMessage ==
  [][\A t \in Tasks :
       (pc[t] = "load" /\ fail'[t] = "template") =>
         user_templates'[tjob[t]]
           = [Row(t) EXCEPT !.status = "failed",
                            !.error_message = "Base template not found"]]_vars

\* a job failed by a missing base template carries the message
C20_Witness ==
  \E t \in Tasks :
    /\ fail[t] = "template" /\ Row(t).status = "failed"
    /\ Row(t).error_message = "Base template not found"

\* the word list without the words whose trimmed text is empty
RECURSIVE NonEmptyWords(_)
NonEmptyWords(ws) ==
  IF ws = <<>> THEN <<>>
  ELSE IF WordText(Head(ws)) = "" THEN NonEmptyWords(Tail(ws))
  ELSE <<Head(ws)>> \o NonEmptyWords(Tail(ws))

\* C13: the karaoke text of a word list equals the one built from the same
\* list with the empty-trimmed-text words removed: the first emitted word
\* has no leading space, every later one exactly one, and skipped words
\* change neither prefix nor duration of the words that follow.
C13_SkippedWordsInvisible ==
  kar.kpc = "built" => kar.out = _karaoke_text(NonEmptyWords(kar.words))

\* the upper-case spelling of a hex digit
UpperOf(ch) == UpperHex[HexVal(ch) + 1]

\* &HAABBGGRR of the six digits RRGGBB: channels reversed, alpha first
AssOfDigits(d, alpha) ==
  "&H" \o Hex02X(alpha) \o UpperOf(d[5]) \o UpperOf(d[6]) \o UpperOf(d[3])
       \o UpperOf(d[4]) \o UpperOf(d[1]) \o UpperOf(d[2])

\* C15: every hex colour #RRGGBB converts to &HAABBGGRR, and a 3-digit
\* #rgb is first expanded to #RRGGBB by doubling each digit, so #abc with
\* alpha 0 yields &H00CCBBAA.
C15_HexToAss ==
  col.cpc = "converted" =>
    LET d == LStripHash(col.hex_color)
    IN  /\ Len(d) = 6 => col.out = AssOfDigits(d, col.alpha)
        /\ Len(d) = 3 =>
              col.out = AssOfDigits(<<d[1], d[1], d[2], d[2], d[3], d[3]>>,
                                    col.alpha)

\* C14: the style of a generated ASS file is the explicit style settings
\* of the request when given, else the registry preset named by the
\* caption's preset id, else the hard-coded default; the burn-in uses the
\* preset named in the request; an unknown preset id falls back to the
\* default and fails neither the export nor the burn-in.
C14_StylePrecedence ==
  /\ (response.kind = "export" /\ response.format = "ass") =>
        response.content.style =
          IF response.style_settings # NoSettings
            THEN StyleFromSettings(response.style_settings)
          ELSE IF /\ caption.style_settings.isdict
                  /\ caption.style_settings.preset_id \in DOMAIN CAPTION_STYLES
            THEN StyleFromPreset(
                   CAPTION_STYLES[caption.style_settings.preset_id])
          ELSE StyleFromSettings(DefaultSettings)
  /\ response.kind = "burn" =>
        response.ass.style =
          IF response.style_preset_id \in DOMAIN CAPTION_STYLES
            THEN StyleFromPreset(CAPTION_STYLES[response.style_preset_id])
            ELSE StyleFromPreset(CAPTION_STYLES["minimal_chic"])

\* an ASS export without explicit settings of a caption whose preset id is
\* not in the registry
C14_Witness ==
  /\ response.kind = "export" /\ response.format = "ass"
  /\ response.style_settings = NoSettings
  /\ caption.style_settings.preset_id = "no_such_preset"
  /\ response.content.style.fontname = "Noto Sans Devanagari"

\* a file with the "," before the milliseconds of every timestamp replaced
\* by "."
CommaToDot(lines) ==
  [i \in DOMAIN lines |->
     IF "start" \in DOMAIN lines[i]
       THEN TimingLine([lines[i].start EXCEPT !.sep = "."],
                       [lines[i].end EXCEPT !.sep = "."])
       ELSE lines[i]]

\* C16: the VTT output is the line WEBVTT, a blank line, and then the SRT
\* output for the same segments and include_translation flag with the ","
\* before the milliseconds of each timestamp replaced by "."; cue count,
\* order and text are the same.
C16_VttIsSrtWithDots ==
  (response.kind = "export" /\ response.format = "vtt") =>
    response.content =
      <<TextLine("WEBVTT"), TextLine("")>> \o
        CommaToDot(_generate_srt(caption.segments,
                                 response.include_translation))

\* a VTT export with translation of two cues, one with a "," in its text
C16_Witness ==
  /\ response.kind = "export" /\ response.format = "vtt"
  /\ response.include_translation
  /\ Len(caption.segments) = 2
  /\ \E i \in 1..2 :
       /\ "text_english" \in DOMAIN caption.segments[i]
       /\ caption.segments[i].text = "Do, teen"

\* C17: the TXT export is the concatenation of the texts of the caption's
\* current segments, also after segment edits through the update.
C17_TxtIsCurrentTexts ==
  (response.kind = "export" /\ response.format = "txt") =>
    response.content = JoinTexts(caption.segments)

Inverted(segment) == segment.end_time < segment.start_time

\* C18: a segment with end < start is rejected: an update never stores
\* one, and no SRT, VTT or ASS export emits one as a cue.
C18_InvertedRejected ==
  /\ [][(caption.status = "completed" /\ caption'.segments # caption.segments)
          => \A i \in DOMAIN caption'.segments :
                ~Inverted(caption'.segments[i])]_vars
  /\ []((response.kind = "export" /\ response.format \in {"srt", "vtt", "ass"})
          => \A i \in DOMAIN caption.segments :
                ~Inverted(caption.segments[i]))

OpsOf(ops) == SelectOps(graph.filter_lines, ops)

\* the value a layer declares for start or end, with $duration read as the
\* render duration d
DeclaredTime(l, k, d, dflt) ==
  IF k \notin DOMAIN l THEN dflt
  ELSE IF l[k] = StrV("$duration") THEN d
  ELSE l[k].int

\* C22: every overlay and drawtext operation is gated by between(t,start,end)
\* with the layer's resolved start and end; an unspecified start is 0, an
\* unspecified end is the render duration, and a specified window is kept
\* exactly.
C22_WindowKept ==
  cpc = "compiled" =>
    \A i \in 1..Len(Composites) :
      LET c == Composites[i]
      IN  c.enable = [s |-> DeclaredTime(layers[c.pos], "start", graph.t, 0),
                      e |-> DeclaredTime(layers[c.pos], "end", graph.t,
                                         graph.t)]

DeclaredOpacity(l) ==
  IF "transform" \in DOMAIN l /\ "opacity" \in DOMAIN l.transform.dict
    THEN l.transform.dict.opacity.int
    ELSE 100

\* C24: for every video/image layer with opacity < 1, opacity 0 included,
\* an alpha multiply with that opacity stands between the layer's scale and
\* its overlay; for opacity 1 there is none.
C24_AlphaWhenTranslucent ==
  cpc = "compiled" =>
    \A i \in 1..Len(OpsOf({"scale"})) :
      LET sc == OpsOf({"scale"})[i]
          o == DeclaredOpacity(layers[sc.pos])
          alphas == {j \in 1..Len(graph.filter_lines) :
                       /\ graph.filter_lines[j].op = "alpha"
                       /\ graph.filter_lines[j].pos = sc.pos}
      IN  IF o < 100
            THEN \E j \in alphas :
                   /\ graph.filter_lines[j].aa = o
                   /\ graph.filter_lines[j].ins = <<sc.out>>
                   /\ graph.filter_lines[j + 1].op = "overlay"
                   /\ graph.filter_lines[j + 1].ins[2]
                        = graph.filter_lines[j].out
            ELSE alphas = {}

\* C25: the graph is one linear chain: every label is produced by exactly
\* one operation, every overlay/drawtext consumes the composite label of
\* the previous contributing step, starting from the background, and the
\* label mapped as output is the last composite label, the background label
\* when no layer contributes.
C25_LinearChain ==
  cpc = "compiled" =>
    LET lines == graph.filter_lines
        n == Len(Composites)
    IN  /\ \A i, j \in 1..Len(lines) : i # j => lines[i].out # lines[j].out
        /\ lines[1].out = "[base]"
        /\ \A i \in 1..n :
             Composites[i].ins[1] = IF i = 1 THEN "[base]"
                                             ELSE Composites[i - 1].out
        /\ \A j \in 1..Len(lines) :
             lines[j].op = "overlay" =>
               /\ lines[j - 1].op \in {"scale", "alpha"}
               /\ lines[j].ins[2] = lines[j - 1].out
        /\ graph.map = IF n = 0 THEN "[base]" ELSE Composites[n].out

\* a graph with two overlays, one of them through an alpha multiply, and a
\* drawtext
C25_Witness ==
  /\ cpc = "compiled"
  /\ Len(OpsOf({"overlay"})) = 2
  /\ Len(OpsOf({"alpha"})) = 1
  /\ Len(OpsOf({"drawtext"})) = 1

\* C28: the input index of a layer's scale operation is the encoder input
\* added for that same layer, also for layers that share an id or declare
\* none.
C28_OwnInput ==
  cpc = "compiled" =>
    \A i \in 1..Len(OpsOf({"scale"})) :
      LET sc == OpsOf({"scale"})[i]
      IN  \E n \in 1..Len(graph.inputs) :
            /\ sc.ins = <<InputLabel(n)>>
            /\ graph.inputs[n].pos = sc.pos

\* the values of the Style: Default line in the order of the format string
StyleLine(st) ==
  <<"Default", st.fontname, ToString(st.fontsize), st.primary, st.secondary,
    _hex_to_ass_color(<<"#", "0", "0", "0", "0", "0", "0">>, 0), st.back,
    ToString(st.bold), "0", "0", "0", "100", "100", "0", "0", "1",
    ToString(st.outline), "1", "2", ToString(st.alignment),
    ToString(st.margin_l), ToString(st.margin_r), ToString(st.margin_v), "1">>

\* str.count(",") on the values a Style line is made of
CommasIn(s) ==
  IF s \in {CAPTION_STYLES[p].font_family : p \in DOMAIN CAPTION_STYLES}
            \cup {CustomSettings.font_family}
    THEN 1 ELSE 0

RECURSIVE FieldCount(_)
FieldCount(line) ==
  IF line = <<>> THEN 0
  ELSE 1 + CommasIn(Head(line)) + FieldCount(Tail(line))

\* the names of the Format: line of [V4+ Styles]
StyleFormat ==
  <<"Name", "Fontname", "Fontsize", "PrimaryColour", "SecondaryColour",
    "OutlineColour", "BackColour", "Bold", "Italic", "Underline", "StrikeOut",
    "ScaleX", "ScaleY", "Spacing", "Angle", "BorderStyle", "Outline", "Shadow",
    "Alignment", "MarginL", "MarginR", "MarginV", "Encoding">>

\* C26: the Default style line of every generated ASS file, exported or
\* burned, has exactly 23 comma-separated fields, one per name of the
\* Format line.
C26_StyleHas23Fields ==
  /\ (response.kind = "export" /\ response.format = "ass")
       => FieldCount(StyleLine(response.content.style)) = Len(StyleFormat)
  /\ response.kind = "burn"
       => FieldCount(StyleLine(response.ass.style)) = Len(StyleFormat)

\* C27: for rgba(r,g,b,a) with a in [0,1] the alpha byte of the back colour
\* is the integer nearest to (1 - a) * 255 (either neighbour at a tie).
C27_AlphaRounded ==
  (col.cpc = "converted" /\ col.rgba.kind = "rgba"
     /\ col.rgba.a100 \in 0..100)
  => \E alpha \in 0..255 :
       /\ 100 * alpha - (100 - col.rgba.a100) * 255 \in -50..50
       /\ col.out = "&H" \o Hex02X(alpha) \o Hex02X(col.rgba.b)
                         \o Hex02X(col.rgba.g) \o Hex02X(col.rgba.r)

\* C29: credits_remaining is never negative, whatever requests that cost
\* credits were accepted or rejected and however they interleave.
C29_CreditsNonNegative == credits_remaining >= 0

\* requests of client c that reached the application in the window of one
\* minute ending at time e
PassedIn(r, c, e) ==
  {i \in DOMAIN r.passed[c] :
     r.passed[c][i] > e - Minute /\ r.passed[c][i] <= e}

C21_NoTempLeft == tmp.tpc = "idle" => tmp.files = {}

====
